---- MODULE Spec2Model ----
(***************************************************************************)
(* The lifecycle controller of dispenser: run_loop (src/src/main.rs) and   *)
(* the provisioning pipeline start() it drives, over an abstract cloud     *)
(* provider (trait Cloud, src/src/cloud/mod.rs) and occupancy oracle       *)
(* (src/src/rcon.rs).                                                      *)
(*                                                                         *)
(* Time is counted in poll intervals: one unit is the 60 s sleep that ends *)
(* a tick (in DailySpec one unit is an hour, and the ticks seen are those  *)
(* at the full hours).  An Option<T> is the empty sequence (None) or a     *)
(* one-element sequence (Some).                                            *)
(***************************************************************************)
EXTENDS Integers, Sequences, FiniteSets, TLC

\* ------------------------------------------------------------------ bounds
\* length of the schedules' recurrence, in poll intervals
Period == 3
\* largest configured stop_grace_time, in poll intervals
MaxGrace == 1
\* largest number of poll intervals one tick can take (sleep + awaited calls)
MaxStep == 2
\* number of ticks of the loop that are explored
MaxTicks == 3
\* largest number of tagged instances that exist before the daemon starts
MaxExisting == 2
\* largest player count the occupancy oracle reports
MaxPlayers == 1
\* largest number of ssh keys in config.server.ssh_keys
MaxKeys == 2
\* largest number of leading executions of the image pull that exit non-zero
MaxPullFails == 7
\* largest number of later setup commands that exit non-zero in one run
MaxFaults == 2
\* largest number of connection attempts whose outcome is chosen one by one
MaxScript == 2
\* longest time, in seconds, one connection attempt takes
MaxAttemptTime == 59
\* largest number of v4 networks in one droplet record
MaxNetworks == 2
\* number of polls of wait_for_ip that are explored
MaxPolls == 4
\* largest number of messages a channel delivers for one command
MaxMsgs == 3
\* largest exit status a command reports
MaxExitStatus == 2

\* ------------------------------------------------------- program constants
\* `tries > 5` in setup's pull loop
PullRetryLimit == 5
\* `tries > 5` in connect_ssh
ConnectRetryLimit == 5
\* sleep(Duration::from_secs(5)) before each SshSession::open in connect_ssh
ConnectSleep == 5
\* sleep(Duration::from_secs(1)) before each attempt in SshSession::open
OpenSleep == 1
\* timeout(Duration::from_secs(5 * 60), ..) in SshSession::open
OpenCeiling == 300

\* ------------------------------------------------------------------ Option
None == <<>>
Some(x) == <<x>>

VARIABLES
    pc,                 \* "init": before line 237; "loop": at the top of the loop (line 253)
    manage_existing,    \* config.server.manage_existing
    dyndns,             \* config.dyndns.is_some()
    stop_grace_time,    \* config.schedule.stop_grace_time
    period,             \* the time after which both schedules recur
    start_schedule,     \* the slot of the period at which the start schedule fires
    stop_schedule,      \* the slot of the period at which the stop schedule fires
    now,                \* the clock (Utc::now / Instant::now)
    active_server,      \* Option<Server>, by id
    start_of_stop_time, \* Option<Instant>
    cloud,              \* the provider's tagged instances, in list() order
    spawned,            \* number of instances the provider created so far
    ticks,              \* number of loop iterations completed
    last,               \* what the last step (start-up, tick or command) did
    call,               \* a function of the pipeline run on its own: its name and inputs
    ret                 \* what that function returned and did

vars == <<pc, manage_existing, dyndns, stop_grace_time, period, start_schedule, stop_schedule,
          now, active_server, start_of_stop_time, cloud, spawned, ticks, last,
          call, ret>>

config == <<manage_existing, dyndns, stop_grace_time, period, start_schedule, stop_schedule>>

\* ------------------------------------------------------------- the provider
\* the instances that exist when the daemon starts: n of them, listed in this order
ExistingServers(n) == [i \in 1..n |-> i]

\* the id the provider gives to the next instance it creates
FreshId == MaxExisting + spawned + 1

\* the instances of the provider account: one that belongs to something
\* else (id 0, without the tag "spire"), then the tagged instances cl
Account(cl) ==
    <<[id |-> 0, tags |-> {"web"}]>>
    \o [i \in 1..Len(cl) |-> [id |-> cl[i], tags |-> {"spire"}]]

\* a variant of list() that returns every instance of the account
List_Unfiltered(account) == [i \in 1..Len(account) |-> account[i].id]

\* what list() returns of the account when the request succeeds: the
\* instances with the tag "spire": digitalocean.rs lines 50-55, vultr.rs 47-52
List(account) ==
    LET tagged == SelectSeq(account, LAMBDA instance : "spire" \in instance.tags)
    IN  [i \in 1..Len(tagged) |-> tagged[i].id]

\* outcomes of cloud.list(): Ok(list) or Err
ListOutcomes == {"ok", "err"}

\* outcomes of cloud.kill(id)
KillOutcomes == {"ok", "err"}

\* the provider after kill(id) with the given outcome
CloudAfterKill(cl, id, res) ==
    IF res = "ok" THEN SelectSeq(cl, LAMBDA s : s # id) ELSE cl

\* the stage at which one run of start() fails ("none": it succeeds).
\* "spawn_created": spawn returns Err after the provider created the instance.
StartFailures ==
    {"none", "list", "spawn", "spawn_created", "wait_for_ip", "connect_ssh", "setup", "close"}

StageNo(stage) ==
    CASE stage = "list" -> 1
      [] stage \in {"spawn", "spawn_created"} -> 2
      [] stage = "wait_for_ip" -> 3
      [] stage = "connect_ssh" -> 4
      [] stage = "setup" -> 5
      [] stage = "close" -> 6
      [] stage = "none" -> 7

NoCalls ==
    [list |-> 0, spawn |-> 0, wait_for_ip |-> 0, set_dyndns |-> 0,
     connect_ssh |-> 0, setup |-> 0, close |-> 0, kill |-> 0]

\* a variant of start() that destroys the instance it created when a later stage fails
Start_Rollback(cl, fail, id) ==
    IF fail = "list"
    THEN [result |-> "Err", server |-> None, cloud |-> cl,
          calls |-> [NoCalls EXCEPT !.list = 1]]
    ELSE IF cl # <<>>
    THEN [result |-> "AlreadyRunning", server |-> Some(Head(cl)), cloud |-> cl,
          calls |-> [NoCalls EXCEPT !.list = 1]]
    ELSE LET n == StageNo(fail)
         IN  [result |-> IF n = 7 THEN "Ok" ELSE "Err",
              server |-> IF n = 7 THEN Some(id) ELSE None,
              cloud |-> IF n = 7 THEN Append(cl, id) ELSE cl,
              calls |-> [list |-> 1,
                         spawn |-> 1,
                         wait_for_ip |-> IF n > 2 THEN 1 ELSE 0,
                         set_dyndns |-> IF n > 3 /\ dyndns THEN 1 ELSE 0,
                         connect_ssh |-> IF n > 3 THEN 1 ELSE 0,
                         setup |-> IF n > 4 THEN 1 ELSE 0,
                         close |-> IF n > 5 THEN 1 ELSE 0,
                         kill |-> IF n > 2 /\ n < 7 THEN 1 ELSE 0]]

\* a variant of start() without the check of the list: lines 332-339 left out
Start_NoListCheck(cl, fail, id) ==
    IF fail = "list"
    THEN [result |-> "Err", server |-> None, cloud |-> cl,
          calls |-> [NoCalls EXCEPT !.list = 1]]
    ELSE LET n == StageNo(fail)
             created == n > 2 \/ fail = "spawn_created"
         IN  [result |-> IF n = 7 THEN "Ok" ELSE "Err",
              server |-> IF n = 7 THEN Some(id) ELSE None,
              cloud |-> IF created THEN Append(cl, id) ELSE cl,
              calls |-> [list |-> 1,
                         spawn |-> 1,
                         wait_for_ip |-> IF n > 2 THEN 1 ELSE 0,
                         set_dyndns |-> IF n > 3 /\ dyndns THEN 1 ELSE 0,
                         connect_ssh |-> IF n > 3 THEN 1 ELSE 0,
                         setup |-> IF n > 4 THEN 1 ELSE 0,
                         close |-> IF n > 5 THEN 1 ELSE 0,
                         kill |-> 0]]

\* a variant of start() that opens a session to the instance it found listed
\* and runs setup on it before it returns AlreadyRunning
Start_SetupOnFound(cl, fail, id) ==
    IF fail = "list"
    THEN [result |-> "Err", server |-> None, cloud |-> cl,
          calls |-> [NoCalls EXCEPT !.list = 1]]
    ELSE IF cl # <<>>
    THEN [result |-> "AlreadyRunning", server |-> Some(Head(cl)), cloud |-> cl,
          calls |-> [NoCalls EXCEPT !.list = 1, !.connect_ssh = 1, !.setup = 1,
                                    !.close = 1]]
    ELSE LET n == StageNo(fail)
             created == n > 2 \/ fail = "spawn_created"
         IN  [result |-> IF n = 7 THEN "Ok" ELSE "Err",
              server |-> IF n = 7 THEN Some(id) ELSE None,
              cloud |-> IF created THEN Append(cl, id) ELSE cl,
              calls |-> [list |-> 1,
                         spawn |-> 1,
                         wait_for_ip |-> IF n > 2 THEN 1 ELSE 0,
                         set_dyndns |-> IF n > 3 /\ dyndns THEN 1 ELSE 0,
                         connect_ssh |-> IF n > 3 THEN 1 ELSE 0,
                         setup |-> IF n > 4 THEN 1 ELSE 0,
                         close |-> IF n > 5 THEN 1 ELSE 0,
                         kill |-> 0]]

\* ------------------------------------------------------------------ start()
\* One run of start() on provider state cl, failing at stage fail; id is the id
\* the provider would give a new instance.  Returns the Result, the provider
\* afterwards and the calls made.
Start(cl, fail, id) ==
    IF fail = "list"
    THEN [result |-> "Err", server |-> None, cloud |-> cl,
          calls |-> [NoCalls EXCEPT !.list = 1]]
    ELSE IF cl # <<>>
    THEN [result |-> "AlreadyRunning", server |-> Some(Head(cl)), cloud |-> cl,
          calls |-> [NoCalls EXCEPT !.list = 1]]
    ELSE LET n == StageNo(fail)
             created == n > 2 \/ fail = "spawn_created"
         IN  [result |-> IF n = 7 THEN "Ok" ELSE "Err",
              server |-> IF n = 7 THEN Some(id) ELSE None,
              cloud |-> IF created THEN Append(cl, id) ELSE cl,
              calls |-> [list |-> 1,
                         spawn |-> 1,
                         wait_for_ip |-> IF n > 2 THEN 1 ELSE 0,
                         set_dyndns |-> IF n > 3 /\ dyndns THEN 1 ELSE 0,
                         connect_ssh |-> IF n > 3 THEN 1 ELSE 0,
                         setup |-> IF n > 4 THEN 1 ELSE 0,
                         close |-> IF n > 5 THEN 1 ELSE 0,
                         kill |-> 0]]

\* -------------------------------------------------------------- set_dyndns
\* how the detached set_dyndns task stands when the step that spawned it ends:
\* dns.update returned Ok, it returned Err (logged, lines 383-385), or the task
\* has not finished
DnsTaskOutcomes == {"ok", "err", "running"}

\* a variant that awaits set_dyndns inside start() and returns its error
SpawnSetDynDns_Awaited(st, dns) ==
    IF dns = "err" /\ st.result = "Ok"
    THEN [st EXCEPT !.result = "Err", !.server = None]
    ELSE st

\* `spawn(set_dyndns(..))`: the task is detached and its JoinHandle dropped, so
\* start() and run_loop go on with what they had: lines 349 and 269
SpawnSetDynDns(st, dns) == st

\* ------------------------------------------------------------- the schedules
\* a variant that takes a firing at t itself for the next one
Upcoming_AtOrAfter(at, t) == t + ((at + period - (t % period)) % period)

\* schedule.upcoming(Utc).next(): the first firing strictly after t of a
\* schedule that fires at slot `at` of every period
Upcoming(at, t) == t + 1 + ((at + period - ((t + 1) % period)) % period)

\* a variant that also provisions when both schedules fire next at the same time
InRunWindow_OrEqual(next_start, next_stop) == next_start >= next_stop

\* "we're between start time and stop time"
InRunWindow(next_start, next_stop) == next_start > next_stop

\* a variant that also drains when both schedules fire next at the same time
InStopWindow_OrEqual(next_start, next_stop) == next_stop >= next_start

\* a variant whose stop branch repeats the condition of the start branch
InStopWindow_AsRunWindow(next_start, next_stop) == next_start > next_stop

\* "we're between stop time and start time"
InStopWindow(next_start, next_stop) == next_stop > next_start

Window(next_start, next_stop) ==
    IF InRunWindow(next_start, next_stop) THEN "run"
    ELSE IF InStopWindow(next_start, next_stop) THEN "stop"
    ELSE "neither"

\* ------------------------------------------------------------------ run_loop
\* a variant that provisions in a run-window whether or not an instance is tracked
ShouldStart_Untracked(active, next_start, next_stop) == InRunWindow(next_start, next_stop)

\* the condition of the start branch: line 258
ShouldStart(active, next_start, next_stop) ==
    active = None /\ InRunWindow(next_start, next_stop)

\* a variant that adopts the last listed instance instead of the first
InitialActiveServer_Last(manage, list_res, cl) ==
    IF manage
    THEN (IF list_res = "ok" /\ cl # <<>> THEN Some(cl[Len(cl)]) ELSE None)
    ELSE None

\* the initial active_server: lines 237-241
InitialActiveServer(manage, list_res, cl) ==
    IF manage
    THEN (IF list_res = "ok" /\ cl # <<>> THEN Some(Head(cl)) ELSE None)
    ELSE None

\* a variant whose AlreadyRunning arm has no manage_existing guard
ActiveAfterStart_AlwaysAdopt(st, manage, active) ==
    IF st.result \in {"Ok", "AlreadyRunning"} THEN st.server ELSE active

\* the match on start()'s result: lines 261-274
ActiveAfterStart(st, manage, active) ==
    IF st.result = "Ok" THEN st.server
    ELSE IF st.result = "AlreadyRunning" /\ manage THEN st.server
    ELSE active

\* set_dyndns tasks spawned by the AlreadyRunning arm: lines 268-270
DynDnsOnAdopt(st, manage) ==
    IF st.result = "AlreadyRunning" /\ manage /\ dyndns THEN 1 ELSE 0

\* a variant without the reset of line 259
StartOfStopTimeOnStart_Kept(sost) == sost

\* `start_of_stop_time = None` in the start branch: line 259
StartOfStopTimeOnStart(sost) == None

\* Option::get_or_insert_with(Instant::now): lines 279-280
GetOrInsertWith(opt, t) == IF opt = None THEN Some(t) ELSE opt

\* outcomes of the occupancy query: Rcon::new failed, player_count failed, or Ok(count)
OracleOutcomes ==
    {[res |-> "connect_err", count |-> 0], [res |-> "cmd_err", count |-> 0]}
    \cup {[res |-> "ok", count |-> n] : n \in 0..MaxPlayers}

NotQueried == [res |-> "not_queried", count |-> 0]

\* whether the occupancy oracle is queried: the else branch of line 283
QueriesOracle(stop_elapsed, grace) == ~(stop_elapsed > grace)

\* a variant that force-stops as soon as the grace time is reached
StopDecision_AtGrace(stop_elapsed, grace, players) ==
    IF stop_elapsed >= grace THEN TRUE
    ELSE IF players.res = "ok" /\ players.count = 0 THEN TRUE
    ELSE FALSE

\* a variant that stops when the occupancy query fails (fail-open)
StopDecision_FailOpen(stop_elapsed, grace, players) ==
    IF stop_elapsed > grace THEN TRUE
    ELSE IF players.res = "ok" THEN players.count = 0
    ELSE TRUE

\* `let stop = ...`: lines 283-310
StopDecision(stop_elapsed, grace, players) ==
    IF stop_elapsed > grace THEN TRUE
    ELSE IF players.res = "ok" /\ players.count = 0 THEN TRUE
    ELSE FALSE

\* a variant that forgets the instance whatever kill returned
ActiveAfterKill_Always(active, kill_res) == None

\* the match on cloud.kill's result: lines 314-319
ActiveAfterKill(active, kill_res) == IF kill_res = "ok" THEN None ELSE active

\* a variant of the loop that returns from run_loop when start() or kill fails
PcAfterTick_Propagate(start_result, oracle_res, kill_res) ==
    IF start_result = "Err" \/ kill_res = "err" THEN "exit" ELSE "loop"

\* where run_loop is after an iteration: the loop has no break, return or `?`;
\* the Err arms of lines 273, 305-308 and 318 only log
PcAfterTick(start_result, oracle_res, kill_res) == "loop"

\* a variant of the start-up that returns from run_loop when list() fails
PcAfterStartup_Propagate(list_res) == IF list_res = "err" THEN "exit" ELSE "loop"

\* where run_loop is after the start-up: `.into_iter().flatten().next()` turns
\* an Err of list() into None, there is no `?` on lines 237-241
PcAfterStartup(list_res) == "loop"

\* no function is run on its own
NoCall == [fn |-> "none"]

Init ==
    /\ pc = "init"
    /\ call = NoCall
    /\ ret = NoCall
    /\ manage_existing \in BOOLEAN
    /\ dyndns \in BOOLEAN
    /\ stop_grace_time \in 0..MaxGrace
    /\ period = Period
    /\ start_schedule \in 0..(Period - 1)
    /\ stop_schedule \in 0..(Period - 1)
    /\ now = 0
    /\ active_server = None
    /\ start_of_stop_time = None
    /\ cloud \in {ExistingServers(n) : n \in 0..MaxExisting}
    /\ spawned = 0
    /\ ticks = 0
    /\ last = [kind |-> "none"]

\* run_loop before the loop: lines 237-251
Startup ==
    /\ pc = "init"
    /\ \E list_res \in (IF manage_existing THEN ListOutcomes ELSE {"not_called"}) :
        /\ active_server' = InitialActiveServer(manage_existing, list_res, List(Account(cloud)))
        /\ last' = [kind |-> "startup",
                    calls |-> [NoCalls EXCEPT !.list = IF manage_existing THEN 1 ELSE 0],
                    list_res |-> list_res,
                    pre_cloud |-> cloud,
                    kill |-> <<>>,
                    oracle |-> NotQueried]
        /\ pc' = PcAfterStartup(list_res)
    /\ start_of_stop_time' = None
    /\ UNCHANGED <<config, now, cloud, spawned, ticks, call, ret>>

\* one iteration of the loop: lines 253-323
Tick ==
    /\ pc = "loop"
    /\ ticks < MaxTicks
    /\ LET next_start == Upcoming(start_schedule, now)
           next_stop == Upcoming(stop_schedule, now)
           \* line 258
           starting == ShouldStart(active_server, next_start, next_stop)
       IN
       \E fail \in (IF starting THEN StartFailures ELSE {"none"}) :
        LET st0 == Start(List(Account(cloud)), fail, FreshId)
            dns_spawned == starting /\ st0.calls.set_dyndns + DynDnsOnAdopt(st0, manage_existing) > 0
        IN
        \E dns \in (IF dns_spawned THEN DnsTaskOutcomes ELSE {"not_spawned"}) :
        LET st == SpawnSetDynDns(st0, dns)
            sost1 == IF starting
                     THEN StartOfStopTimeOnStart(start_of_stop_time)
                     ELSE start_of_stop_time
            active1 == IF starting
                       THEN ActiveAfterStart(st, manage_existing, active_server)
                       ELSE active_server
            cloud1 == IF starting THEN st.cloud ELSE cloud
            \* line 278
            stopping == active1 # None /\ InStopWindow(next_start, next_stop)
            sost2 == IF stopping THEN GetOrInsertWith(sost1, now) ELSE sost1
            stop_elapsed == IF stopping THEN now - sost2[1] ELSE 0
            queried == stopping /\ QueriesOracle(stop_elapsed, stop_grace_time)
        IN
        \E players \in (IF queried THEN OracleOutcomes ELSE {NotQueried}) :
         LET stop == stopping /\ StopDecision(stop_elapsed, stop_grace_time, players)
         IN
         \E kill_res \in (IF stop THEN KillOutcomes ELSE {"not_called"}), step \in 1..MaxStep :
            /\ active_server' = IF stop THEN ActiveAfterKill(active1, kill_res) ELSE active1
            /\ start_of_stop_time' = sost2
            /\ cloud' = IF stop THEN CloudAfterKill(cloud1, active1[1], kill_res) ELSE cloud1
            /\ spawned' = IF cloud1 # cloud THEN spawned + 1 ELSE spawned
            /\ now' = now + step
            /\ last' = [kind |-> "tick",
                        at |-> now,
                        next_start |-> next_start,
                        next_stop |-> next_stop,
                        window |-> Window(next_start, next_stop),
                        pre_active |-> active_server,
                        pre_sost |-> start_of_stop_time,
                        pre_cloud |-> cloud,
                        start_calls |-> IF starting THEN 1 ELSE 0,
                        start_result |-> IF starting THEN st.result ELSE "not_called",
                        start_failure |-> IF starting /\ st.result = "Err" THEN fail ELSE "none",
                        start_server |-> IF starting THEN st.server ELSE None,
                        calls |-> IF starting THEN st.calls ELSE NoCalls,
                        dyndns_on_adopt |-> IF starting
                                            THEN DynDnsOnAdopt(st, manage_existing)
                                            ELSE 0,
                        dns_task |-> dns,
                        stop_elapsed |-> IF stopping THEN Some(stop_elapsed) ELSE None,
                        oracle |-> players,
                        kill |-> IF stop THEN Some(active1[1]) ELSE None,
                        kill_res |-> kill_res,
                        after_failed_kill |-> last.kind = "tick" /\ last.kill_res = "err"]
            /\ pc' = PcAfterTick(IF starting THEN st.result ELSE "not_called",
                                 players.res, kill_res)
    /\ ticks' = ticks + 1
    /\ UNCHANGED <<config, call, ret>>

Next == Startup \/ Tick

Spec == Init /\ [][Next]_vars

\* the daemon with the start schedule "0 0 18 * * *" and the stop schedule
\* "0 0 2 * * *", started at any hour of the day: time is counted in hours
DailyInit ==
    /\ pc = "init"
    /\ call = NoCall
    /\ ret = NoCall
    /\ manage_existing \in BOOLEAN
    /\ dyndns \in BOOLEAN
    /\ stop_grace_time \in 0..MaxGrace
    /\ period = 24
    /\ start_schedule = 18
    /\ stop_schedule = 2
    /\ now \in 0..23
    /\ active_server = None
    /\ start_of_stop_time = None
    /\ cloud \in {ExistingServers(n) : n \in 0..MaxExisting}
    /\ spawned = 0
    /\ ticks = 0
    /\ last = [kind |-> "none"]

DailySpec == DailyInit /\ [][Next]_vars

\* ------------------------------------------------------------------- main
\* Commands::Start, the one-shot command: lines 206-214
CmdStart ==
    /\ pc = "init"
    /\ \E fail \in StartFailures :
        LET st0 == Start(List(Account(cloud)), fail, FreshId)
        IN
        \E dns \in (IF st0.calls.set_dyndns > 0 THEN DnsTaskOutcomes ELSE {"not_spawned"}) :
        LET st == SpawnSetDynDns(st0, dns)
        IN  /\ cloud' = st.cloud
            /\ spawned' = IF st.cloud # cloud THEN spawned + 1 ELSE spawned
            /\ last' = [kind |-> "cmd_start",
                        pre_cloud |-> cloud,
                        start_calls |-> 1,
                        start_result |-> st.result,
                        start_failure |-> IF st.result = "Err" THEN fail ELSE "none",
                        start_server |-> st.server,
                        calls |-> st.calls,
                        dns_task |-> dns,
                        kill |-> None]
    /\ pc' = "exit"
    /\ UNCHANGED <<config, now, active_server, start_of_stop_time, ticks, call, ret>>

\* main: the match on the command, with the daemon's loop: lines 176-226
MainNext == Startup \/ Tick \/ CmdStart

MainSpec == Init /\ [][MainNext]_vars

\* ------------------------------------------------------------- the daemon
\* a variant of the ctrl_c arm that destroys the tracked instance on the way out
CancelKill_Tracked(active) == active

\* the instance the ctrl_c arm of the select! kills: the arm is empty (line 183)
CancelKill(active) == None

\* ctrl_c() completes first and the run_loop future is dropped where it is
\* waiting (lines 181-184): in the list of line 238, in the sleep that ends a
\* tick, inside start(), in the occupancy query or in cloud.kill.
\* tick_kill: the kill the interrupted tick had already called.
CtrlC ==
    /\ pc \in {"init", "loop"}
    /\ LET next_start == Upcoming(start_schedule, now)
           next_stop == Upcoming(stop_schedule, now)
           starting == pc = "loop" /\ ShouldStart(active_server, next_start, next_stop)
           stopping == /\ pc = "loop"
                       /\ active_server # None
                       /\ InStopWindow(next_start, next_stop)
           sost2 == GetOrInsertWith(start_of_stop_time, now)
           stop_elapsed == IF stopping THEN now - sost2[1] ELSE 0
           queried == stopping /\ QueriesOracle(stop_elapsed, stop_grace_time)
           can_stop == stopping /\ \E players \in (IF queried THEN OracleOutcomes ELSE {NotQueried}) :
                                       StopDecision(stop_elapsed, stop_grace_time, players)
           Dropped(at, cl, sost, tick_kill) ==
               LET killed == CancelKill(active_server)
               IN  /\ cloud' = (IF killed = None THEN cl
                                ELSE CloudAfterKill(cl, killed[1], "ok"))
                   /\ start_of_stop_time' = sost
                   /\ spawned' = IF cl # cloud /\ Len(cl) > Len(cloud)
                                  THEN spawned + 1 ELSE spawned
                   /\ last' = [kind |-> "ctrl_c", at |-> at,
                               pre_active |-> active_server,
                               pre_cloud |-> cloud,
                               tick_kill |-> tick_kill,
                               kill |-> killed]
       IN  \/ /\ pc = "init"
              /\ Dropped("list", cloud, start_of_stop_time, None)
           \/ /\ pc = "loop"
              /\ Dropped("sleep", cloud, start_of_stop_time, None)
           \/ /\ starting
              /\ \E stage \in StartFailures \ {"none"} :
                    Dropped(stage, Start(List(Account(cloud)), stage, FreshId).cloud,
                              StartOfStopTimeOnStart(start_of_stop_time), None)
           \/ /\ queried
              /\ Dropped("player_count", cloud, sost2, None)
           \/ /\ can_stop
              /\ \E kill_res \in KillOutcomes :
                    Dropped("kill", CloudAfterKill(cloud, active_server[1], kill_res),
                              sost2, active_server)
    /\ pc' = "exit"
    /\ UNCHANGED <<config, now, active_server, ticks, call, ret>>

\* Commands::Daemon: run_loop raced against ctrl_c: lines 177-185
DaemonNext == Startup \/ Tick \/ CtrlC

DaemonSpec == Init /\ [][DaemonNext]_vars

\* ---------------------------------------------------- DigitalOcean::spawn
\* outcomes of get_ssh_key_id for one configured key: found in the account's
\* list, not found and created, or an error of the list or of the create
KeyLookupOutcomes == {"found", "created", "err"}

\* outcomes of the create request: the send fails, the provider answers 401/403,
\* another status that is no success, or a success (the droplet exists)
CreateOutcomes == {"net_err", "unauthorized", "failure_status", "success"}

\* the inputs of one run of DigitalOcean::spawn
SpawnCalls ==
    [fn : {"spawn"},
     create_key : {"ok", "err"},
     keys : UNION {[1..n -> KeyLookupOutcomes] : n \in 0..MaxKeys},
     create : CreateOutcomes,
     remove_key : {"ok", "err"},
     body : {"ok", "err"}]

\* DigitalOcean::spawn: lines 58-111.  registered: the deploy key was registered
\* with the provider; created: the provider created the droplet.
Spawn(in) ==
    LET Ret(result, error, registered, removals, created) ==
            [fn |-> "spawn", result |-> result, error |-> error,
             registered |-> registered, remove_key_calls |-> removals,
             created |-> created]
    IN  IF in.create_key = "err"
        THEN Ret("Err", "create_key", FALSE, 0, FALSE)
        ELSE IF \E i \in 1..Len(in.keys) : in.keys[i] = "err"
        THEN Ret("Err", "get_ssh_key_id", TRUE, 0, FALSE)
        ELSE LET created == in.create = "success"
             IN  IF in.remove_key = "err"
                 THEN Ret("Err", "remove_key", TRUE, 1, created)
                 ELSE IF in.create = "net_err"
                 THEN Ret("Err", "create_network", TRUE, 1, created)
                 ELSE IF in.create = "unauthorized"
                 THEN Ret("Err", "create_unauthorized", TRUE, 1, created)
                 ELSE IF in.create = "success"
                 THEN (IF in.body = "ok"
                       THEN Ret("Ok", "none", TRUE, 1, created)
                       ELSE Ret("Err", "create_json", TRUE, 1, created))
                 ELSE Ret("Err", "create_response", TRUE, 1, created)

\* ------------------------------------------------------------------ setup()
\* the commands setup() runs after the image pull, in the order of the source:
\* lines 104-162
LaterCommands(hostname) ==
    <<"docker_run", "dd_swapfile", "mkswap_swapon", "wget_palantir_service",
      "wget_palantir", "chmod_palantir", "sed_palantir_service", "iptables",
      IF hostname THEN "hostname_start_palantir" ELSE "start_palantir">>

NumLaterCommands == Len(LaterCommands(TRUE))

\* the inputs of one run of setup(): the first pull_fails executions of the
\* pull exit non-zero and the next one ends as pull_then (exit code zero, or an
\* SshError); the later commands in fail_steps exit non-zero, the one at
\* err_step (0: none) ends with an SshError, the others exit with zero.
SetupCalls ==
    [fn : {"setup"},
     hostname : BOOLEAN,
     pull_fails : 0..MaxPullFails,
     pull_then : {"ok", "err"},
     fail_steps : {f \in SUBSET (1..NumLaterCommands) : Cardinality(f) <= MaxFaults},
     err_step : 0..NumLaterCommands]

\* what the n-th execution of `docker pull` returns
PullOutcome(in, n) == IF n <= in.pull_fails THEN "fail" ELSE in.pull_then

\* what the k-th later command returns
StepOutcome(in, k) ==
    IF in.err_step = k THEN "err"
    ELSE IF k \in in.fail_steps THEN "fail"
    ELSE "ok"

\* a variant of the pull loop that gives up at the fifth failure
RECURSIVE PullLoop_GiveUpAtLimit(_, _)
PullLoop_GiveUpAtLimit(in, tries0) ==
    LET tries == tries0 + 1
        result == PullOutcome(in, tries)
    IN  IF result = "err" THEN [result |-> "Ssh", pulls |-> tries]
        ELSE IF result = "ok" THEN [result |-> "Ok", pulls |-> tries]
        ELSE IF tries >= PullRetryLimit THEN [result |-> "SetupError", pulls |-> tries]
        ELSE PullLoop_GiveUpAtLimit(in, tries)

\* a variant of the pull loop that allows one more retry
RECURSIVE PullLoop_OneMore(_, _)
PullLoop_OneMore(in, tries0) ==
    LET tries == tries0 + 1
        result == PullOutcome(in, tries)
    IN  IF result = "err" THEN [result |-> "Ssh", pulls |-> tries]
        ELSE IF result = "ok" THEN [result |-> "Ok", pulls |-> tries]
        ELSE IF tries > PullRetryLimit + 1 THEN [result |-> "SetupError", pulls |-> tries]
        ELSE PullLoop_OneMore(in, tries)

\* the pull loop, entered with `tries` executions made: lines 79-102
RECURSIVE PullLoop(_, _)
PullLoop(in, tries0) ==
    LET tries == tries0 + 1
        result == PullOutcome(in, tries)
    IN  IF result = "err" THEN [result |-> "Ssh", pulls |-> tries]
        ELSE IF result = "ok" THEN [result |-> "Ok", pulls |-> tries]
        ELSE IF tries > PullRetryLimit THEN [result |-> "SetupError", pulls |-> tries]
        ELSE PullLoop(in, tries)

\* whether setup() looks at the exit code of a later command: only that of
\* `docker run` (lines 134-136); the others are only awaited with `?`
ChecksExitCode(cmd) == cmd = "docker_run"

\* the later commands from the k-th on, after `execs` were executed: lines 132-164
RECURSIVE RunLaterCommands(_, _, _)
RunLaterCommands(in, k, execs) ==
    IF k > NumLaterCommands
    THEN [result |-> "Ok", output |-> None, execs |-> execs]
    ELSE LET cmd == LaterCommands(in.hostname)[k]
             done == Append(execs, cmd)
             result == StepOutcome(in, k)
         IN  IF result = "err"
             THEN [result |-> "Ssh", output |-> None, execs |-> done]
             ELSE IF result = "fail" /\ ChecksExitCode(cmd)
             THEN [result |-> "SetupError", output |-> Some(Len(done)), execs |-> done]
             ELSE RunLaterCommands(in, k + 1, done)

\* setup(): lines 72-165.  execs: the commands executed, in order; output: the
\* execution (its place in execs) whose captured output the SetupError carries.
Setup(in) ==
    LET pull == PullLoop(in, 0)
        pulled == [i \in 1..pull.pulls |-> "docker_pull"]
        later == RunLaterCommands(in, 1, pulled)
    IN  IF pull.result = "Ok"
        THEN [fn |-> "setup", result |-> later.result, output |-> later.output,
              execs |-> later.execs, pulls |-> pull.pulls]
        ELSE [fn |-> "setup", result |-> pull.result,
              output |-> IF pull.result = "SetupError" THEN Some(pull.pulls) ELSE None,
              execs |-> pulled, pulls |-> pull.pulls]

\* ------------------------------------------- connect_ssh, SshSession::open
\* what one connection attempt (open_impl) can return: a session, or one of
\* the SshError variants
AttemptOutcomes == {"Ok", "ConnectionTimeout", "Unauthorized", "Disconnected", "Other"}

AttemptTimes == {MaxAttemptTime \div 2, MaxAttemptTime}

\* the inputs of one run of connect_ssh: the outcomes of the first attempts one
\* by one, the outcome of every attempt after them, and the time an attempt takes
ConnectCalls ==
    [fn : {"connect_ssh"},
     script : UNION {[1..n -> AttemptOutcomes] : n \in 0..MaxScript},
     rest : AttemptOutcomes,
     attempt_time : AttemptTimes]

\* what the n-th connection attempt of the run returns, if it is left to finish
AttemptOutcome(in, n) == IF n <= Len(in.script) THEN in.script[n] ELSE in.rest

\* the loop of SshSession::open under its timeout, t seconds after open was
\* called, for a run that has made the attempts `made` (their outcomes, in
\* order): lines 77-89.  An attempt still running when the timeout fires is
\* dropped ("cancelled") and open returns ConnectionTimeout.
\* starts: when, counted from the call of open, each of its attempts began.
RECURSIVE OpenLoop(_, _, _, _)
OpenLoop(in, made, starts, t) ==
    LET begin == t + OpenSleep
        finish == begin + in.attempt_time
        result == AttemptOutcome(in, Len(made) + 1)
    IN  IF begin > OpenCeiling
        THEN [result |-> "ConnectionTimeout", made |-> made, starts |-> starts,
              elapsed |-> OpenCeiling]
        ELSE IF finish > OpenCeiling
        THEN [result |-> "ConnectionTimeout", made |-> Append(made, "cancelled"),
              starts |-> Append(starts, begin), elapsed |-> OpenCeiling]
        ELSE IF result = "ConnectionTimeout"
        THEN OpenLoop(in, Append(made, result), Append(starts, begin), finish)
        ELSE [result |-> result, made |-> Append(made, result),
              starts |-> Append(starts, begin), elapsed |-> finish]

\* the loop of connect_ssh, t seconds after connect_ssh was called, with
\* `tries` calls of open made: lines 389-411.
\* opens: the calls of SshSession::open; attempts: the outcome of every
\* connection attempt of the run, in order; starts: when each began.
RECURSIVE ConnectLoop(_, _, _, _, _)
ConnectLoop(in, tries0, made, starts, t) ==
    LET tries == tries0 + 1
        called == t + ConnectSleep
        open == OpenLoop(in, made, <<>>, 0)
        began == starts \o [i \in 1..Len(open.starts) |-> called + open.starts[i]]
        ended == called + open.elapsed
    IN  IF open.result = "Ok"
        THEN [fn |-> "connect_ssh", result |-> "Ok", error |-> None, opens |-> tries,
              attempts |-> open.made, starts |-> began, elapsed |-> ended]
        ELSE IF tries > ConnectRetryLimit
        THEN [fn |-> "connect_ssh", result |-> "Err",
              error |-> Some(<<"Ssh", open.result>>), opens |-> tries,
              attempts |-> open.made, starts |-> began, elapsed |-> ended]
        ELSE ConnectLoop(in, tries, open.made, began, ended)

\* connect_ssh: lines 388-412.  Its error reaches the caller of start() as
\* Error::Ssh(e), by `?` at line 355.
ConnectSsh(in) == ConnectLoop(in, 0, <<>>, <<>>, 0)

\* ------------------------------------------------------------ wait_for_ip
Providers == {"digitalocean", "vultr"}

\* the instance records get_instance can return.  DigitalOcean: the v4
\* networks of the droplet, each Public or Private.  Vultr: main_ip, the
\* unspecified address 0.0.0.0 or an assigned one.
InstanceRecords(provider) ==
    IF provider = "digitalocean"
    THEN {[v4 |-> nets] :
            nets \in UNION {[1..n -> {"Private", "Public"}] : n \in 0..MaxNetworks}}
    ELSE {[main_ip |-> ip] : ip \in {"unspecified", "assigned"}}

\* the errors of get_instance: the request fails, the provider answers 401 or
\* 403, the body is not the expected JSON
GetErrors == {"Network", "Unauthorized", "InvalidResponse"}

GetOutcomes(provider) ==
    {[res |-> "Err", error |-> e] : e \in GetErrors}
    \cup {[res |-> "Ok", instance |-> r] : r \in InstanceRecords(provider)}

\* the record of an instance that has no address yet
NoAddressYet(provider) ==
    IF provider = "digitalocean" THEN [v4 |-> <<>>] ELSE [main_ip |-> "unspecified"]

\* the inputs of one run of wait_for_ip: what get_instance returns to the first
\* polls; after them the provider keeps reporting the instance without address
WaitForIpCalls ==
    UNION {[fn : {"wait_for_ip"},
            provider : {p},
            polls : UNION {[1..n -> GetOutcomes(p)] : n \in 0..MaxScript}] : p \in Providers}

\* what the n-th call of get_instance returns
GetInstance(in, n) ==
    IF n <= Len(in.polls) THEN in.polls[n]
    ELSE [res |-> "Ok", instance |-> NoAddressYet(in.provider)]

\* DigitalOceanNetworks::v4: the places of the Public networks, in order
PublicV4(instance) == SelectSeq([i \in 1..Len(instance.v4) |-> i],
                                LAMBDA i : instance.v4[i] = "Public")

\* a variant that takes any v4 network of the droplet, private ones too
HasIp_AnyNetwork(provider, instance) ==
    IF provider = "digitalocean"
    THEN instance.v4 # <<>>
    ELSE instance.main_ip # "unspecified"

\* the condition that ends the loop of wait_for_ip: digitalocean.rs lines
\* 127-128, vultr.rs line 104
HasIp(provider, instance) ==
    IF provider = "digitalocean"
    THEN PublicV4(instance) # <<>>
    ELSE instance.main_ip # "unspecified"

\* Ipv4Addr::UNSPECIFIED, 0.0.0.0; an assigned address is a number above it
Unspecified == 0

\* `instance.into()`: the Server made of the record.  ip: for DigitalOcean the
\* address of the first Public v4 network (its place in the list stands for
\* it) or the unspecified address; for Vultr main_ip.
ServerOf(provider, instance) ==
    IF provider = "digitalocean"
    THEN [ip |-> IF PublicV4(instance) # <<>> THEN Head(PublicV4(instance))
                 ELSE Unspecified]
    ELSE [ip |-> IF instance.main_ip = "unspecified" THEN Unspecified ELSE 1]

\* wait_for_ip is in its loop, having called get_instance `gets` times
Polling(gets) ==
    [fn |-> "wait_for_ip", result |-> "pending", gets |-> gets,
     server |-> None, error |-> None, from_poll |-> 0]

\* one iteration of the loop of wait_for_ip, after `gets` calls of
\* get_instance: digitalocean.rs lines 125-134, vultr.rs lines 102-111
WaitForIpPoll(in, gets) ==
    LET n == gets + 1
        got == GetInstance(in, n)
    IN  IF got.res = "Err"
        THEN [Polling(n) EXCEPT !.result = "Err", !.error = Some(got.error)]
        ELSE IF HasIp(in.provider, got.instance)
        THEN [Polling(n) EXCEPT !.result = "Ok",
                                !.server = Some(ServerOf(in.provider, got.instance)),
                                !.from_poll = n]
        ELSE Polling(n)

\* ------------------------------------------------- kill of the adapters
\* what the provider answers to the DELETE request of kill: the request fails,
\* or a response with a status: 204 (destroyed), 401, 403, 404 (no such
\* instance), 422 (cannot be destroyed now), 500
KillResponses ==
    {[sent |-> FALSE, status |-> 0]}
    \cup {[sent |-> TRUE, status |-> c] : c \in {204, 401, 403, 404, 422, 500}}

\* the inputs of one run of kill
KillCalls == [fn : {"kill"}, provider : Providers, response : KillResponses]

\* CloudError::from_status_code: mod.rs lines 33-40
FromStatusCode(status) ==
    IF status = 401 \/ status = 403
    THEN [result |-> "Err", error |-> Some("Unauthorized")]
    ELSE [result |-> "Ok", error |-> None]

\* DigitalOcean::kill and Vultr::kill, which differ in the URL only:
\* digitalocean.rs lines 113-122, vultr.rs lines 90-99
Kill(in) ==
    IF ~in.response.sent
    THEN [fn |-> "kill", result |-> "Err", error |-> Some("Network")]
    ELSE [fn |-> "kill"] @@ FromStatusCode(in.response.status)

\* ------------------------------------------------------ SshSession::exec
\* the messages the channel of a command can deliver: ChannelMsg::Data,
\* ChannelMsg::ExitStatus, and others (extended data, Eof, exit signal, ..)
ChannelMsgs ==
    {[type |-> "Data", data |-> d] : d \in {<<>>, <<"a">>, <<"b", "c">>}}
    \cup {[type |-> "ExitStatus", exit_status |-> c] : c \in 0..MaxExitStatus}
    \cup {[type |-> "ExtendedData", data |-> <<"e">>], [type |-> "Eof"]}

\* the inputs of one run of exec: what channel.wait() yields until it yields None
ExecCalls == [fn : {"exec"}, msgs : UNION {[1..n -> ChannelMsgs] : n \in 0..MaxMsgs}]

\* the `while let Some(msg) = channel.wait().await` loop of exec: lines 119-128
RECURSIVE ExecLoop(_, _, _)
ExecLoop(msgs, output, code) ==
    IF msgs = <<>>
    THEN [output |-> output, code |-> code]
    ELSE LET msg == Head(msgs)
         IN  IF msg.type = "Data"
             THEN ExecLoop(Tail(msgs), output \o msg.data, code)
             ELSE IF msg.type = "ExitStatus"
             THEN ExecLoop(Tail(msgs), output, Some(msg.exit_status))
             ELSE ExecLoop(Tail(msgs), output, code)

\* a variant that takes a missing exit status for success
Success_UnwrapOrZero(result) == result.code = None \/ result.code = Some(0)

\* CommandResult::success: lines 154-156
Success(result) == result.code = Some(0)

\* SshSession::exec on a channel that opened: lines 117-129, with what
\* success() says of the CommandResult it returns
Exec(in) ==
    LET result == ExecLoop(in.msgs, <<>>, None)
    IN  [fn |-> "exec", output |-> result.output, code |-> result.code,
         success |-> Success(result)]

\* ---------------------------------------------------------- Config::cloud
\* what the configuration file gives for a provider section: absent, or the
\* section with its region and plan
ProviderSections(name) == {None, Some([region |-> name, plan |-> name])}

\* the inputs of one run of Config::cloud: the fields vultr and digital_ocean
ConfigCloudCalls ==
    [fn : {"cloud"},
     vultr : ProviderSections("vultr"),
     digital_ocean : ProviderSections("digital_ocean")]

\* Config::cloud: config.rs lines 50-68
ConfigCloud(in) ==
    IF in.vultr # None /\ in.digital_ocean # None
    THEN [fn |-> "cloud", result |-> "Err", error |-> Some("NoProvider"),
          provider |-> None]
    ELSE IF in.vultr # None
    THEN [fn |-> "cloud", result |-> "Ok", error |-> None,
          provider |-> Some([adapter |-> "vultr", region |-> in.vultr[1].region,
                             plan |-> in.vultr[1].plan])]
    ELSE IF in.digital_ocean # None
    THEN [fn |-> "cloud", result |-> "Ok", error |-> None,
          provider |-> Some([adapter |-> "digitalocean",
                             region |-> in.digital_ocean[1].region,
                             plan |-> in.digital_ocean[1].plan])]
    ELSE [fn |-> "cloud", result |-> "Err", error |-> Some("NoProvider"),
          provider |-> None]

\* ------------------------------------------- the pipeline's functions alone
\* the inputs of the functions that are run on their own
Calls == SpawnCalls \cup SetupCalls \cup ConnectCalls \cup WaitForIpCalls \cup KillCalls
         \cup ExecCalls \cup ConfigCloudCalls

\* one function of the pipeline is about to run on inputs drawn from Calls;
\* the controller is not running
FnInit ==
    /\ pc = "fn"
    /\ call \in Calls
    /\ ret = NoCall
    /\ manage_existing = FALSE
    /\ dyndns = FALSE
    /\ stop_grace_time = 0
    /\ period = Period
    /\ start_schedule = 0
    /\ stop_schedule = 0
    /\ now = 0
    /\ active_server = None
    /\ start_of_stop_time = None
    /\ cloud = <<>>
    /\ spawned = 0
    /\ ticks = 0
    /\ last = [kind |-> "none"]

controller == <<pc, config, now, active_server, start_of_stop_time, cloud, spawned,
                ticks, last>>

RunSpawn ==
    /\ pc = "fn" /\ call.fn = "spawn" /\ ret = NoCall
    /\ ret' = Spawn(call)
    /\ UNCHANGED <<controller, call>>

RunSetup ==
    /\ pc = "fn" /\ call.fn = "setup" /\ ret = NoCall
    /\ ret' = Setup(call)
    /\ UNCHANGED <<controller, call>>

RunConnectSsh ==
    /\ pc = "fn" /\ call.fn = "connect_ssh" /\ ret = NoCall
    /\ ret' = ConnectSsh(call)
    /\ UNCHANGED <<controller, call>>

\* one poll of wait_for_ip, the first one or one after the 500 ms sleep
PollWaitForIp ==
    /\ pc = "fn" /\ call.fn = "wait_for_ip"
    /\ \/ ret = NoCall /\ ret' = WaitForIpPoll(call, 0)
       \/ /\ ret # NoCall
          /\ ret.result = "pending"
          /\ ret.gets < MaxPolls
          /\ ret' = WaitForIpPoll(call, ret.gets)
    /\ UNCHANGED <<controller, call>>

RunKill ==
    /\ pc = "fn" /\ call.fn = "kill" /\ ret = NoCall
    /\ ret' = Kill(call)
    /\ UNCHANGED <<controller, call>>

RunExec ==
    /\ pc = "fn" /\ call.fn = "exec" /\ ret = NoCall
    /\ ret' = Exec(call)
    /\ UNCHANGED <<controller, call>>

RunConfigCloud ==
    /\ pc = "fn" /\ call.fn = "cloud" /\ ret = NoCall
    /\ ret' = ConfigCloud(call)
    /\ UNCHANGED <<controller, call>>

FnNext ==
    \/ RunSpawn \/ RunSetup \/ RunConnectSsh \/ PollWaitForIp \/ RunKill \/ RunExec
    \/ RunConfigCloud

FnSpec == FnInit /\ [][FnNext]_vars

\* ================================================================== claims
IsTick == last.kind = "tick"

\* the tick found no tracked instance and was inside a run-window
IdleRunTick == IsTick /\ last.pre_active = None /\ last.next_start > last.next_stop

\* the tick was inside a stop-window with a tracked instance
TrackedStopTick == IsTick /\ last.pre_active # None /\ last.next_stop > last.next_start

OracleZero == [res |-> "ok", count |-> 0]

\* C1: a tick calls start() exactly once if it finds no tracked instance and
\* nextStart > nextStop, and not at all otherwise; so start() is called on every
\* such tick, whatever the earlier ticks saw.
C1_StartOncePerIdleRunTick ==
    IsTick =>
        /\ (IdleRunTick => last.start_calls = 1 /\ last.calls.list = 1)
        /\ (~IdleRunTick => last.start_calls = 0 /\ last.calls = NoCalls)

\* a second attempt: start() is called on an idle run-window tick that finds an
\* instance left behind by an earlier, failed attempt of this loop
C1_Witness ==
    /\ IdleRunTick
    /\ ticks >= 2
    /\ last.start_calls = 1
    /\ \E i \in 1..Len(last.pre_cloud) : last.pre_cloud[i] > MaxExisting

\* C2: kill is not called before the time since the drain began exceeds the
\* grace duration.  A drain that begins on the stop-window tick that follows a
\* run-window tick has lasted no time at that tick, so while the occupancy
\* oracle does not report zero that tick must not call kill.
C2_NoKillWhenDrainBegins ==
    [][(/\ IsTick
        /\ last.window = "run"
        /\ active_server # None
        /\ last'.kind = "tick"
        /\ last'.window = "stop"
        /\ last'.oracle # OracleZero)
       => last'.kill = None]_vars

\* C3: a run-window tick that finds the controller draining (instance tracked,
\* grace timer set) clears the grace timer and keeps the instance.
C3_RunWindowClearsGraceTimer ==
    (IsTick /\ last.window = "run" /\ last.pre_active # None /\ last.pre_sost # None)
        => (start_of_stop_time = None /\ active_server = last.pre_active)

\* C4: at the end of a tick the grace timer is set only if an instance is
\* tracked and the tick was inside a stop-window.
C4_GraceTimerOnlyWhileDraining ==
    (IsTick /\ start_of_stop_time # None)
        => (active_server # None /\ last.window = "stop")

\* C5: a stop-window tick on which the oracle reports zero players calls kill
\* for the tracked instance and, the kill having succeeded, ends with no
\* tracked instance and the grace timer cleared.
C5_ZeroPlayersStopsAndClears ==
    (TrackedStopTick /\ last.oracle = OracleZero)
        => /\ last.kill = last.pre_active
           /\ (last.kill_res = "ok"
                 => active_server = None /\ start_of_stop_time = None)

\* the tick was inside a stop-window with a tracked instance whose drain had
\* not lasted longer than the grace duration
DrainingWithinGrace ==
    TrackedStopTick /\ last.stop_elapsed # None /\ last.stop_elapsed[1] <= stop_grace_time

\* C6: a stop-window tick within the grace duration on which the oracle
\* reports a non-zero count calls no kill, keeps the instance tracked and keeps
\* the grace timer's start value.
C6_PlayersLeftNoAction ==
    (DrainingWithinGrace /\ last.oracle.res = "ok" /\ last.oracle.count > 0)
        => /\ last.kill = None
           /\ active_server = last.pre_active
           /\ cloud = last.pre_cloud
           /\ start_of_stop_time # None
           /\ (last.pre_sost # None => start_of_stop_time = last.pre_sost)

\* a drain that has lasted exactly the grace duration, with players left
C6_Witness ==
    /\ DrainingWithinGrace
    /\ last.oracle.res = "ok" /\ last.oracle.count > 0
    /\ last.pre_sost # None
    /\ last.stop_elapsed[1] = stop_grace_time
    /\ stop_grace_time > 0

\* C7: a failed occupancy query (connecting or player_count) calls no kill and
\* keeps the instance tracked; kill is called only by a stop-window tick on
\* which the grace duration has elapsed or the oracle reported zero.
C7_OracleFailureDoesNotStop ==
    /\ (IsTick /\ last.oracle.res \in {"connect_err", "cmd_err"})
          => /\ DrainingWithinGrace
             /\ last.kill = None
             /\ active_server = last.pre_active
             /\ active_server # None
    /\ (IsTick /\ last.kill # None)
          => /\ TrackedStopTick
             /\ (last.stop_elapsed[1] > stop_grace_time \/ last.oracle = OracleZero)

\* a drain under way whose occupancy query fails
C7_Witness ==
    /\ IsTick
    /\ last.oracle.res = "cmd_err"
    /\ last.pre_sost # None
    /\ active_server # None

\* the tick ran start() and it failed with an error that is not an adopted
\* AlreadyRunning
StartFailed ==
    /\ IsTick
    /\ \/ last.start_result = "Err"
       \/ (last.start_result = "AlreadyRunning" /\ ~manage_existing)

\* C8 as stated: a failed start() leaves the controller idle with the grace
\* timer unset and has no side effect (the provider is unchanged and no DNS
\* update is fired).
C8_FailedStartNoSideEffect ==
    StartFailed
        => /\ active_server = None
           /\ start_of_stop_time = None
           /\ cloud = last.pre_cloud
           /\ last.calls.set_dyndns = 0

\* the stages after which the provider holds the new instance
StagesAfterCreate == {"spawn_created", "wait_for_ip", "connect_ssh", "setup", "close"}

\* the stages after which the DNS update has been spawned
StagesAfterDynDns == {"connect_ssh", "setup", "close"}

\* C8 as amended: a failed start() leaves the controller idle with the grace
\* timer unset, calls no kill and queries no oracle; the provider keeps the
\* instance of a spawn that created one, and is otherwise unchanged; the DNS
\* update has been fired iff dyndns is configured and waitForIp had succeeded;
\* and a following run-window tick calls start() again.
C8_FailedStartLeavesIdle ==
    /\ [](StartFailed
            => /\ active_server = None
               /\ start_of_stop_time = None
               /\ last.kill = None
               /\ last.oracle = NotQueried
               /\ cloud = IF last.start_failure \in StagesAfterCreate
                          THEN Append(last.pre_cloud, MaxExisting + spawned)
                          ELSE last.pre_cloud
               /\ last.calls.set_dyndns =
                      IF dyndns /\ last.start_failure \in StagesAfterDynDns THEN 1 ELSE 0)
    /\ [][(StartFailed /\ last'.kind = "tick" /\ last'.window = "run")
             => last'.start_calls = 1]_vars

\* a start() that fails although a kill had left the grace timer set
C8_Witness ==
    /\ StartFailed
    /\ last.start_failure = "setup"
    /\ last.pre_sost # None
    /\ ticks >= 2

\* C9: when start() reports AlreadyRunning, spawn has not been called; with
\* manage_existing the first listed instance is tracked at the end of the tick,
\* without it no instance is tracked.
C9_AlreadyRunningAdoption ==
    (IsTick /\ last.start_result = "AlreadyRunning")
        => /\ last.pre_cloud # <<>>
           /\ last.calls.spawn = 0
           /\ cloud = last.pre_cloud
           /\ active_server = IF manage_existing THEN Some(Head(last.pre_cloud)) ELSE None

\* an adoption during a tick
C9_Witness ==
    /\ IsTick
    /\ last.start_result = "AlreadyRunning"
    /\ manage_existing
    /\ active_server = Some(Head(last.pre_cloud))

\* C10: start-up calls list() once iff manage_existing is set, and nothing
\* else; the first tick begins with the first listed instance tracked if
\* manage_existing is set and list() returned one, and with none otherwise.
C10_StartupAdoption ==
    (last.kind = "startup")
        => /\ pc = "loop" /\ ticks = 0
           /\ last.calls = [NoCalls EXCEPT !.list = IF manage_existing THEN 1 ELSE 0]
           /\ cloud = last.pre_cloud
           /\ start_of_stop_time = None
           /\ active_server =
                 IF manage_existing /\ last.list_res = "ok" /\ cloud # <<>>
                 THEN Some(cloud[1])
                 ELSE None

\* start-up adopts the first of two listed instances
C10_Witness ==
    /\ last.kind = "startup"
    /\ manage_existing
    /\ Len(cloud) >= 2
    /\ active_server = Some(cloud[1])

\* the step ran start(): a daemon tick that provisions, or the one-shot command
StartRan == last.kind \in {"tick", "cmd_start"} /\ last.start_calls = 1

\* the ids of a list of instances
Ids(cl) == {cl[i] : i \in 1..Len(cl)}

\* C11: at most one instance is tracked, and a tick calls start() (and so
\* cloud.spawn) only if it found no tracked instance; a tick that finds an
\* instance tracked makes no call of the pipeline and creates no instance.
C11_StartOnlyWhenUntracked ==
    /\ Len(active_server) <= 1
    /\ (IsTick /\ (last.start_calls > 0 \/ last.calls.spawn > 0))
          => last.pre_active = None
    /\ (IsTick /\ last.pre_active # None)
          => /\ last.start_calls = 0
             /\ last.calls = NoCalls
             /\ Ids(cloud) \subseteq Ids(last.pre_cloud)

\* a tick that spawned an instance and tracks it
C11_Witness ==
    /\ IsTick
    /\ last.pre_active = None
    /\ last.calls.spawn = 1
    /\ last.start_result = "Ok"
    /\ active_server = last.start_server

\* C12: a run of start() calls no kill; every instance the provider held stays,
\* and so does the instance a spawn created, whichever later stage fails.
C12_StartNeverDestroys ==
    StartRan
        => /\ last.calls.kill = 0
           /\ last.kill = None
           /\ Ids(last.pre_cloud) \subseteq Ids(cloud)
           /\ (last.start_failure \in StagesAfterCreate
                 => /\ last.calls.spawn = 1
                    /\ Len(cloud) = Len(last.pre_cloud) + 1
                    /\ cloud[Len(cloud)] = MaxExisting + spawned)
           /\ (last.start_result = "Ok" => last.start_server[1] \in Ids(cloud))

\* start() fails in setup, after spawn, and the new instance is still there
C12_Witness ==
    /\ StartRan
    /\ last.start_failure = "setup"
    /\ last.calls.setup = 1
    /\ cloud = Append(last.pre_cloud, MaxExisting + spawned)

\* C13: when list() at the beginning of start() returns a non-empty list,
\* start() returns AlreadyRunning with the first listed instance and has called
\* only list(); the provider is unchanged.  For the daemon tick and the
\* one-shot command.
C13_StartOnlyIfNoneListed ==
    (StartRan /\ last.pre_cloud # <<>> /\ last.start_failure # "list")
        => /\ last.start_result = "AlreadyRunning"
           /\ last.start_server = Some(Head(last.pre_cloud))
           /\ last.calls = [NoCalls EXCEPT !.list = 1]
           /\ cloud = last.pre_cloud

\* the one-shot command finds two instances listed
C13_Witness ==
    /\ last.kind = "cmd_start"
    /\ last.start_result = "AlreadyRunning"
    /\ Len(last.pre_cloud) >= 2
    /\ pc = "exit"

\* DigitalOcean::spawn has returned
SpawnReturned == ret # NoCall /\ ret.fn = "spawn"

\* the create request of that run failed
CreateFailed == call.create # "success"

\* C14: a run of spawn that registered the deploy key has called remove_key
\* for it exactly once when it returns, on every path.
C14_DeployKeyRemovedOnce ==
    (SpawnReturned /\ ret.registered) => ret.remove_key_calls = 1

\* C15: when the create request failed, spawn returns the create failure even
\* if the revocation failed too; the revocation failure is returned only after
\* a successful create.
C15_RevocationDoesNotMaskCreate ==
    /\ (SpawnReturned /\ ret.remove_key_calls = 1 /\ CreateFailed)
          => ret.error \in {"create_network", "create_unauthorized", "create_response"}
    /\ (SpawnReturned /\ ret.error = "remove_key") => ~CreateFailed

\* setup() has returned
SetupReturned == ret # NoCall /\ ret.fn = "setup"

\* the number of pull executions of that run that exited non-zero
FailedPulls == Cardinality({n \in 1..ret.pulls : PullOutcome(call, n) = "fail"})

\* every pull execution of that run exited non-zero
EveryPullFailed == \A n \in 1..ret.pulls : PullOutcome(call, n) = "fail"

\* the later setup commands that run executed
LaterExecs == SubSeq(ret.execs, ret.pulls + 1, Len(ret.execs))

\* C16: when the first 5 executions of the pull exit non-zero and the next one
\* exits with zero, setup() does not fail in the pull step: it has made exactly
\* 5 failed pulls, one successful pull, and goes on to start the container.
C16_PullSucceedsAfterFiveFailures ==
    (SetupReturned /\ call.pull_fails = 5 /\ call.pull_then = "ok")
        => /\ FailedPulls = 5
           /\ ret.pulls = 6
           /\ LaterExecs # <<>>
           /\ Head(LaterExecs) = "docker_run"
           /\ (ret.result = "SetupError" => ret.output # Some(ret.pulls))
           /\ ((call.fail_steps = {} /\ call.err_step = 0) => ret.result = "Ok")

\* five failed pulls, a successful one, and the whole setup succeeds
C16_Witness ==
    /\ SetupReturned
    /\ call.pull_fails = 5
    /\ call.pull_then = "ok"
    /\ ret.result = "Ok"
    /\ Len(LaterExecs) = NumLaterCommands

\* C17 as stated: when every execution of the pull exits non-zero, setup()
\* executes the pull exactly 5 times and fails with SetupError carrying the
\* output of the fifth, without executing a later command.
C17_GivesUpAfterFivePulls ==
    (SetupReturned /\ EveryPullFailed)
        => /\ ret.pulls = 5
           /\ ret.result = "SetupError"
           /\ ret.output = Some(5)
           /\ LaterExecs = <<>>

\* C17, amended: when every execution of the pull exits non-zero, setup()
\* executes the pull exactly 6 times and fails with SetupError carrying the
\* output of the sixth, without executing a later command.
C17_GivesUpAfterSixPulls ==
    (SetupReturned /\ EveryPullFailed)
        => /\ ret.pulls = 6
           /\ ret.result = "SetupError"
           /\ ret.output = Some(6)
           /\ ret.execs = [i \in 1..6 |-> "docker_pull"]

\* the pull never succeeds and setup() has given up
C17_Witness ==
    /\ SetupReturned
    /\ call.pull_fails = MaxPullFails
    /\ EveryPullFailed
    /\ ret.result = "SetupError"

\* C20: setup() executes its commands in the order of the steps, and a command
\* that exits non-zero is the last one executed, with setup() returning an
\* error (a failed pull may be followed only by its retries).
C20_FailedStepAbortsSetup ==
    SetupReturned
        => /\ \A k \in 1..Len(LaterExecs) : LaterExecs[k] = LaterCommands(call.hostname)[k]
           /\ (ret.pulls > call.pull_fails \/ LaterExecs = <<>>)
           /\ \A k \in 1..Len(LaterExecs) :
                 StepOutcome(call, k) = "fail"
                     => /\ Len(LaterExecs) = k
                        /\ ret.result # "Ok"

\* connect_ssh has returned
ConnectReturned == ret # NoCall /\ ret.fn = "connect_ssh"

\* C18: a connection attempt that ends with ConnectionTimeout is followed by
\* another attempt as long as the retry limits allow, and an attempt that ends
\* with Unauthorized is the last attempt of the run, which fails.
C18_UnauthorizedIsFatal ==
    ConnectReturned
        => \A n \in 1..Len(ret.attempts) :
              /\ (ret.attempts[n] = "ConnectionTimeout" /\ n = Len(ret.attempts))
                    => (ret.result = "Err" /\ ret.opens > ConnectRetryLimit)
              /\ ret.attempts[n] = "Unauthorized"
                    => (n = Len(ret.attempts) /\ ret.result = "Err")

\* every connection attempt of the run timed out or was cut off by a timeout
EveryAttemptTimedOut ==
    \A n \in 1..Len(ret.attempts) : ret.attempts[n] \in {"ConnectionTimeout", "cancelled"}

\* C19: when every connection attempt times out, no attempt begins more than
\* 5 minutes after the first one, the run ends within 5 minutes of it, and
\* the error returned is StartTimeout.
C19_OneOverallCeiling ==
    (ConnectReturned /\ EveryAttemptTimedOut)
        => /\ ret.result = "Err"
           /\ \A n \in 1..Len(ret.starts) : ret.starts[n] - ret.starts[1] <= 300
           /\ ret.elapsed - ret.starts[1] <= 300
           /\ ret.error = Some(<<"Cloud", "StartTimeout">>)

\* wait_for_ip has been called
InWaitForIp == ret # NoCall /\ ret.fn = "wait_for_ip"

\* the record of the n-th poll shows a public IPv4 address
ShowsPublicV4(n) ==
    LET got == GetInstance(call, n)
    IN  /\ got.res = "Ok"
        /\ IF call.provider = "digitalocean"
           THEN \E i \in 1..Len(got.instance.v4) : got.instance.v4[i] = "Public"
           ELSE got.instance.main_ip = "assigned"

\* C21: wait_for_ip returns Ok only with the record of its last poll, which
\* shows a public IPv4, every poll before it having shown none (N polls
\* without, then N+1 calls of get_instance in all); it returns Err exactly
\* when its last poll was an error, with that error; and while every poll
\* succeeds and shows no public IPv4 it has not returned.
C21_WaitForIpReturnsOnlyWithIp ==
    InWaitForIp
        => /\ \A n \in 1..(ret.gets - 1) :
                 GetInstance(call, n).res = "Ok" /\ ~ShowsPublicV4(n)
           /\ (ret.result = "Ok"
                 <=> ShowsPublicV4(ret.gets))
           /\ (ret.result = "Ok"
                 => /\ ret.from_poll = ret.gets
                    /\ ret.server = Some(ServerOf(call.provider,
                                                  GetInstance(call, ret.gets).instance))
                    /\ ret.server[1].ip # Unspecified)
           /\ (ret.result = "Err"
                 <=> GetInstance(call, ret.gets).res = "Err")
           /\ (ret.result = "Err"
                 => ret.error = Some(GetInstance(call, ret.gets).error))
           /\ (ret.result = "pending"
                 <=> (GetInstance(call, ret.gets).res = "Ok" /\ ~ShowsPublicV4(ret.gets)))

\* two polls without a public IPv4 (the second with a private network only),
\* then the third poll shows one and is returned
C21_Witness ==
    /\ InWaitForIp
    /\ call.provider = "digitalocean"
    /\ ret.result = "Ok"
    /\ ret.gets = Len(call.polls)
    /\ ret.gets >= 2
    /\ GetInstance(call, ret.gets - 1).instance.v4 = <<"Private">>

\* some call of the tick returned an error
TickHadFailure ==
    /\ IsTick
    /\ \/ last.start_result \in {"Err", "AlreadyRunning"}
       \/ last.oracle.res \in {"connect_err", "cmd_err"}
       \/ last.kill_res = "err"

\* C22: whatever failed inside a tick (list, spawn, wait_for_ip, the remote
\* session, setup, the occupancy query, kill), the tick completes with
\* run_loop at the top of its loop again and the next tick can run; the daemon
\* is left only by the interrupt.
C22_LoopSurvivesFailures ==
    /\ IsTick => pc = "loop"
    /\ (IsTick /\ ticks < MaxTicks) => ENABLED Tick
    /\ pc = "exit" => last.kind = "ctrl_c"

\* a tick whose kill failed follows a tick, and the loop is still running
C22_Witness ==
    /\ TickHadFailure
    /\ last.kill_res = "err"
    /\ ticks >= 2
    /\ pc = "loop"

\* the daemon was cancelled by the interrupt
Cancelled == last.kind = "ctrl_c"

\* C23: the cancellation calls no kill, from whatever state: the tracked
\* instance is left at the provider, unless the interrupted tick itself had
\* already called kill for it.
C23_CancelNeverKills ==
    Cancelled
        => /\ last.kill = None
           /\ active_server = last.pre_active
           /\ Ids(last.pre_cloud) \ Ids(last.tick_kill) \subseteq Ids(cloud)
           /\ (last.pre_active # None /\ last.tick_kill = None
                  /\ last.pre_active[1] \in Ids(last.pre_cloud))
                 => last.pre_active[1] \in Ids(cloud)

\* the interrupt arrives inside start(), after the instance was created,
\* in a daemon that went through a drain before
C23_Witness ==
    /\ Cancelled
    /\ last.at = "setup"
    /\ Len(cloud) = Len(last.pre_cloud) + 1
    /\ ticks >= 1

\* C24: a run of start() that fails in connect_ssh, in setup or in the close
\* of the session has spawned no set_dyndns task.
C24_DnsUpdateOnlyOnSuccess ==
    (StartRan /\ last.start_failure \in {"connect_ssh", "setup", "close"})
        => last.calls.set_dyndns = 0

\* the step spawned a set_dyndns task: start() did, or run_loop on adoption
DnsTaskSpawned ==
    /\ StartRan
    /\ last.dns_task \in DnsTaskOutcomes

\* what start() returns on the provider state the step found, failing at the
\* stage it failed at
StartOutcome ==
    Start(last.pre_cloud, last.start_failure,
          IF cloud = last.pre_cloud THEN FreshId ELSE MaxExisting + spawned)

\* C25: whether the detached set_dyndns task succeeded, failed or is still
\* running when the step ends, start() has returned what it returns without
\* the task, the tracked instance is the one that result gives, and the tick
\* has completed.
C25_DnsTaskNeverAffectsController ==
    DnsTaskSpawned
        => /\ last.start_result = StartOutcome.result
           /\ last.start_server = StartOutcome.server
           /\ last.calls = StartOutcome.calls
           /\ IsTick
                 => /\ pc = "loop"
                    /\ last.kill = None
                    /\ active_server = ActiveAfterStart(StartOutcome, manage_existing,
                                                        last.pre_active)

\* the DNS update failed, and the instance start() set up is tracked
C25_Witness ==
    /\ DnsTaskSpawned
    /\ IsTick
    /\ last.dns_task = "err"
    /\ last.start_result = "Ok"
    /\ active_server = last.start_server

\* the hour of the day at which the tick ran
HourOfTick == last.at % 24

\* C26: with the start schedule at 18:00 and the stop schedule at 02:00 every
\* day, a tick from 18:00 up to 02:00 (not included) finds nextStart >
\* nextStop and a tick from 02:00 up to 18:00 (not included) finds nextStop >
\* nextStart; a run-window tick without tracked instance calls start(), and a
\* stop-window tick with a tracked instance and an occupancy of zero calls
\* kill for it and, the kill having succeeded, ends with no tracked instance.
C26_DailyWindows ==
    IsTick
        => /\ (HourOfTick >= 18 \/ HourOfTick < 2)
                 => (last.next_start > last.next_stop /\ last.window = "run")
           /\ (HourOfTick >= 2 /\ HourOfTick < 18)
                 => (last.next_stop > last.next_start /\ last.window = "stop")
           /\ (last.window = "run" /\ last.pre_active = None)
                 => last.start_calls = 1
           /\ (last.window = "stop" /\ last.pre_active # None /\ last.oracle = OracleZero)
                 => /\ last.kill = last.pre_active
                    /\ (last.kill_res = "ok"
                          => /\ active_server = None
                             /\ last.pre_active[1] \notin Ids(cloud))

\* a tick at 03:00 finds an instance tracked and not draining, the oracle
\* reports zero players, the instance is destroyed and none is tracked
C26_Witness ==
    /\ IsTick
    /\ HourOfTick = 3
    /\ last.pre_active # None
    /\ last.pre_sost = None
    /\ last.oracle = OracleZero
    /\ last.kill_res = "ok"
    /\ active_server = None

\* kill of an adapter has returned
KillReturned == ret # NoCall /\ ret.fn = "kill"

\* C27: kill returns an error when the provider answers that it has no such
\* instance (404), and more generally whenever the answer is not a success, so
\* that Ok means the instance was destroyed; for both adapters.
C27_StaleKillIsAnError ==
    KillReturned
        => /\ (call.response.sent /\ call.response.status = 404) => ret.result = "Err"
           /\ ret.result = "Ok" => (call.response.sent /\ call.response.status = 204)

\* exec has returned
ExecReturned == ret # NoCall /\ ret.fn = "exec"

\* the places of the exit status messages among the messages delivered
ExitStatusAt == {i \in 1..Len(call.msgs) : call.msgs[i].type = "ExitStatus"}

\* the data of the Data messages among the first n delivered, in arrival order
RECURSIVE DataUpTo(_)
DataUpTo(n) ==
    IF n = 0 THEN <<>>
    ELSE IF call.msgs[n].type = "Data" THEN DataUpTo(n - 1) \o call.msgs[n].data
    ELSE DataUpTo(n - 1)

\* C28: success() is true exactly when an exit status was received and it is
\* zero: it is false for every non-zero exit status and when the channel
\* closed without one; the result exec returns holds the data of all Data
\* messages the channel delivered, in arrival order.
C28_SuccessIsExitStatusZero ==
    ExecReturned
        => /\ ret.success
                 <=> (ExitStatusAt # {}
                      /\ \A i \in ExitStatusAt :
                            (\A j \in ExitStatusAt : j <= i) => call.msgs[i].exit_status = 0)
           /\ ExitStatusAt = {} => (ret.code = None /\ ~ret.success)
           /\ ret.output = DataUpTo(Len(call.msgs))

\* data arrives after the exit status, which is not zero
C28_Witness ==
    /\ ExecReturned
    /\ Len(call.msgs) = MaxMsgs
    /\ call.msgs[1].type = "Data"
    /\ call.msgs[2].type = "ExitStatus"
    /\ call.msgs[2].exit_status # 0
    /\ call.msgs[3].type = "Data"
    /\ ~ret.success
    /\ Len(ret.output) > Len(call.msgs[1].data)

\* C29: a tick that calls start() neither queries the occupancy oracle nor
\* calls kill nor touches the grace timer's elapsed time, also when start()
\* has just made an instance tracked; and a tick that drain-checks has not
\* called start().
C29_ProvisionOrDrainCheck ==
    IsTick
        => /\ last.start_calls = 1
                 => /\ last.oracle = NotQueried
                    /\ last.kill = None
                    /\ last.kill_res = "not_called"
                    /\ last.stop_elapsed = None
           /\ (last.stop_elapsed # None \/ last.oracle # NotQueried \/ last.kill # None)
                 => (last.start_calls = 0 /\ last.calls = NoCalls)

\* start() has just made an instance tracked, and the tick ends with it
C29_Witness ==
    /\ IsTick
    /\ last.start_calls = 1
    /\ last.start_result = "Ok"
    /\ last.pre_active = None
    /\ active_server = last.start_server
    /\ last.start_server[1] \in Ids(cloud)

\* the kill of the tick returned an error
KillFailed == IsTick /\ last.kill_res = "err"

\* C30: a tick whose kill returned an error ends with the instance still
\* tracked and the grace timer at the value it had (or was given) in that
\* tick; the next tick, if inside a stop-window, finds both, measures the
\* drain from the same start and decides by the same rule: it calls kill for
\* the same instance exactly if the grace time is exceeded or the oracle
\* reports zero players.
C30_FailedKillIsRetried ==
    /\ [](KillFailed
            => /\ active_server = last.pre_active
               /\ active_server # None
               /\ last.kill = active_server
               /\ active_server[1] \in Ids(cloud)
               /\ start_of_stop_time = GetOrInsertWith(last.pre_sost, last.at))
    /\ [][(KillFailed /\ last'.kind = "tick" /\ last'.window = "stop")
            => /\ last'.pre_active = active_server
               /\ last'.pre_sost = start_of_stop_time
               /\ last'.stop_elapsed = Some(last'.at - start_of_stop_time[1])
               /\ last'.kill # None
                     <=> \/ last'.stop_elapsed[1] > stop_grace_time
                         \/ last'.oracle = OracleZero
               /\ last'.kill # None => last'.kill = active_server
               /\ start_of_stop_time' = start_of_stop_time]_vars

\* the tick after a failed kill calls kill again, within the grace time
\* because the oracle reports zero players, and this kill succeeds
C30_Witness ==
    /\ IsTick
    /\ last.after_failed_kill
    /\ last.kill = last.pre_active
    /\ last.oracle = OracleZero
    /\ last.kill_res = "ok"
    /\ active_server = None

\* the tick's list() returned an instance while none was tracked
FoundUntracked ==
    /\ IdleRunTick
    /\ last.pre_cloud # <<>>
    /\ last.start_failure # "list"

\* C31: with adoption disabled, a run-window tick with no tracked instance
\* whose list() returns an instance calls no spawn, creates nothing and ends
\* with no tracked instance; so does every such tick while the instance stays
\* listed.
C31_UntrackedInstanceBlocksProvisioning ==
    (FoundUntracked /\ ~manage_existing)
        => /\ last.start_result = "AlreadyRunning"
           /\ last.calls = [NoCalls EXCEPT !.list = 1]
           /\ last.dyndns_on_adopt = 0
           /\ cloud = last.pre_cloud
           /\ active_server = None
           /\ last.kill = None

\* the instance left by a run of start() that failed after spawn blocks the
\* next run-window tick
C31_Witness ==
    /\ FoundUntracked
    /\ ~manage_existing
    /\ last.pre_cloud = <<MaxExisting + 1>>
    /\ spawned = 1
    /\ active_server = None
    /\ ticks >= 2

\* the step adopted a listed instance: at start-up, or on a tick by the
\* AlreadyRunning arm
Adopted ==
    \/ last.kind = "startup" /\ active_server # None
    \/ IsTick /\ last.start_result = "AlreadyRunning" /\ manage_existing

\* C32: a step that adopts an instance opens no remote session and runs no
\* setup; and with adoption enabled, the run-window tick that follows a tick
\* whose start() failed in setup tracks the instance that run created, again
\* without a session or setup.
C32_AdoptionRunsNoSetup ==
    /\ [](Adopted
            => /\ last.calls.connect_ssh = 0
               /\ last.calls.setup = 0
               /\ last.calls.close = 0
               /\ last.calls.spawn = 0
               /\ active_server = Some(Head(last.pre_cloud)))
    /\ [][(/\ IsTick
            /\ last.start_failure = "setup"
            /\ manage_existing
            /\ last'.kind = "tick"
            /\ last'.window = "run"
            /\ last'.start_failure # "list")
           => /\ cloud = <<MaxExisting + spawned>>
              /\ active_server = None
              /\ last'.start_result = "AlreadyRunning"
              /\ last'.calls.connect_ssh = 0
              /\ last'.calls.setup = 0
              /\ active_server' = Some(MaxExisting + spawned)]_vars

\* an instance this daemon created in a run of start() that failed is
\* adopted by a later run-window tick
C32_Witness ==
    /\ Adopted
    /\ IsTick
    /\ last.pre_active = None
    /\ last.pre_cloud = <<MaxExisting + 1>>
    /\ spawned = 1
    /\ active_server = Some(MaxExisting + 1)
    /\ last.calls.setup = 0

\* the ids of the instances of the account that carry the tag "spire"
SpireIds(cl) ==
    {Account(cl)[i].id : i \in {j \in 1..Len(Account(cl)) : "spire" \in Account(cl)[j].tags}}

\* C33: the id a tick passes to kill is the id of the instance tracked on
\* that tick; an instance that becomes tracked is one list() returned, which
\* carries the tag, or the one this run of start() created with the tag; so
\* no instance without the tag is tracked or killed.
C33_OnlyTaggedInstancesKilled ==
    /\ (IsTick /\ last.kill # None)
          => /\ last.kill = last.pre_active
             /\ last.kill[1] \in SpireIds(last.pre_cloud)
    /\ (last.kind \in {"startup", "tick"} /\ active_server # None)
          => \/ IsTick /\ active_server = last.pre_active
             \/ active_server[1] \in SpireIds(last.pre_cloud)
             \/ /\ IsTick
                /\ last.start_result = "Ok"
                /\ last.calls.spawn = 1
                /\ active_server = Some(MaxExisting + spawned)
    /\ active_server # None => active_server[1] \in SpireIds(cloud)

\* an adopted instance is killed while the account holds an untagged one
C33_Witness ==
    /\ IsTick
    /\ last.kill # None
    /\ last.kill_res = "ok"
    /\ last.kill[1] <= MaxExisting
    /\ \E i \in 1..Len(Account(cloud)) : "spire" \notin Account(cloud)[i].tags

\* C34: a tick with nextStart > nextStop or nextStart = nextStop queries no
\* occupancy oracle, calls no kill and leaves the grace timer alone unless it
\* calls start(); an instance tracked when the tick began is still tracked
\* and still at the provider, whatever the grace timer says.
C34_NoDrainOutsideStopWindow ==
    (IsTick /\ last.next_start >= last.next_stop)
        => /\ last.window \in {"run", "neither"}
           /\ last.oracle = NotQueried
           /\ last.kill = None
           /\ last.kill_res = "not_called"
           /\ last.stop_elapsed = None
           /\ last.pre_active # None
                 => /\ active_server = last.pre_active
                    /\ start_of_stop_time = last.pre_sost
                    /\ cloud = last.pre_cloud

\* a run-window tick leaves a tracked instance alone although the grace
\* timer was started longer ago than the grace time
C34_Witness ==
    /\ IsTick
    /\ last.window = "run"
    /\ last.pre_active # None
    /\ last.pre_sost # None
    /\ last.at - last.pre_sost[1] > stop_grace_time
    /\ active_server = last.pre_active

\* the start-up asked the provider for the instances and the call failed
StartupListFailed ==
    /\ last.kind = "startup"
    /\ manage_existing
    /\ last.list_res = "err"

\* C35: with adoption enabled, a start-up whose list() fails calls list()
\* once, tracks nothing, sets no grace timer and leaves run_loop at the top of
\* its loop with the first tick able to run; the start-up never runs again;
\* and a first tick in a run-window that then finds the instance the start-up
\* missed tracks it through the AlreadyRunning arm.
C35_StartupListFailure ==
    /\ [](StartupListFailed
            => /\ pc = "loop"
               /\ last.calls = [NoCalls EXCEPT !.list = 1]
               /\ active_server = None
               /\ start_of_stop_time = None
               /\ cloud = last.pre_cloud
               /\ ENABLED Tick)
    /\ []((FoundUntracked /\ manage_existing /\ ticks = 1)
            => /\ last.start_result = "AlreadyRunning"
               /\ last.calls = [NoCalls EXCEPT !.list = 1]
               /\ active_server = Some(Head(last.pre_cloud))
               /\ start_of_stop_time = None)
    /\ [][pc = "loop" => (pc' = "loop" /\ last'.kind # "startup")]_vars

\* the first tick adopts an instance that was there at the start-up: with
\* adoption enabled this happens only after a failed start-up list()
C35_Witness ==
    /\ FoundUntracked
    /\ manage_existing
    /\ ticks = 1
    /\ Head(last.pre_cloud) <= MaxExisting
    /\ spawned = 0
    /\ active_server = Some(Head(last.pre_cloud))

\* Config::cloud has returned
ConfigCloudReturned == ret # NoCall /\ ret.fn = "cloud"

\* C36: Config::cloud returns the vultr adapter when only the vultr section is
\* configured and the digitalocean adapter when only the digital_ocean section
\* is; with neither section the result is the error NoProvider, with both it
\* is the error MultipleProviders.
C36_ProviderSelection ==
    ConfigCloudReturned
        => /\ (call.vultr # None /\ call.digital_ocean = None)
                 => (ret.result = "Ok" /\ ret.provider[1].adapter = "vultr")
           /\ (call.vultr = None /\ call.digital_ocean # None)
                 => (ret.result = "Ok" /\ ret.provider[1].adapter = "digitalocean")
           /\ (call.vultr = None /\ call.digital_ocean = None)
                 => (ret.result = "Err" /\ ret.error = Some("NoProvider"))
           /\ (call.vultr # None /\ call.digital_ocean # None)
                 => (ret.result = "Err" /\ ret.error = Some("MultipleProviders"))

====
